---- MODULE Spec2Model ----
(***************************************************************************)
(* Model of the app-update-size recorder: the click entrypoint             *)
(* (click_main.py: init-db, update, summary) and the argparse entrypoint   *)
(* (argparse_main.py: main), both over an sqlite database holding one      *)
(* table `updates (name, size, date)`.                                     *)
(*                                                                         *)
(* Each command-line invocation is one process that runs to completion,    *)
(* so each handler is one action.  The persisted state is the database     *)
(* file; a connection sees the file plus its own uncommitted writes.       *)
(***************************************************************************)
EXTENDS Integers, Sequences, FiniteSets, TLC

\* ---------------------------------------------------------------- bounds
MaxRows == 2
MaxDay == 1

\* --------------------------------------------------------------- inputs
\* values of the NAME and SIZE command-line arguments (always strings)
Names == {"", "A"}
Sizes == {"10", "0", "-5", "abc"}
\* values of the argparse `update` positional (nargs='+' gives a list)
ArgLists == {<<>>, <<"statistics">>, <<"A", "10">>, <<"", "-5">>,
             <<"update", "A", "10">>}

VARIABLES
    db,         \* the database file: [exists: is there an `updates` table, table: its rows]
    today,      \* the calendar day (ordinal) of the latest invocation
    call,       \* the latest invocation: what was run, on what, how it ended
    rows,       \* what the latest invocation fetched (cursor.fetchall / fetchone)
    out,        \* the lines the latest invocation printed
    prev        \* the invocation before the latest one: what was run, how it ended

vars == <<db, today, call, rows, out, prev>>

\* ---------------------------------------------------------------- dates
\* datetime.date.today() for day ordinal d, counted from 2026-12-31
DateToday(d) ==
    IF d = 0 THEN [year |-> 2026, month |-> 12, day |-> 31]
             ELSE [year |-> 2027, month |-> 1, day |-> d]

Pad2(n) == IF n < 10 THEN "0" \o ToString(n) ELSE ToString(n)

\* str(date) / sqlite3's default date adapter: ISO-8601 text
IsoFormat(date) ==
    ToString(date.year) \o "-" \o Pad2(date.month) \o "-" \o Pad2(date.day)

\* ------------------------------------------------------------- database
\* a database with no table: a new file, or a new ":memory:" database
EmptyDb == [exists |-> FALSE, table |-> <<>>]

\* sqlite3.connect: the connection sees the file; nothing uncommitted yet
Connect(file) == [file |-> file, work |-> file]

\* CREATE TABLE updates (name, size, date): DDL, applied at once
ExecCreate_IfNotExists(conn) ==
    IF conn.work.exists
    THEN [ok |-> TRUE, conn |-> conn]
    ELSE [ok |-> TRUE,
          conn |-> [file |-> [exists |-> TRUE, table |-> <<>>],
                    work |-> [exists |-> TRUE, table |-> <<>>]]]

ExecCreate_Replace(conn) ==
    [ok |-> TRUE,
     conn |-> [file |-> [exists |-> TRUE, table |-> <<>>],
               work |-> [exists |-> TRUE, table |-> <<>>]]]

ExecCreate(conn) ==
    IF conn.work.exists
    THEN [ok |-> FALSE, conn |-> conn]
    ELSE [ok |-> TRUE,
          conn |-> [file |-> [exists |-> TRUE, table |-> <<>>],
                    work |-> [exists |-> TRUE, table |-> <<>>]]]

\* DROP TABLE updates: DDL, applied at once; an error when there is no table
ExecDrop_DeleteRows(conn) ==
    IF conn.work.exists
    THEN [ok |-> TRUE,
          conn |-> [file |-> [exists |-> TRUE, table |-> <<>>],
                    work |-> [exists |-> TRUE, table |-> <<>>]]]
    ELSE [ok |-> FALSE, conn |-> conn]

ExecDrop(conn) ==
    IF conn.work.exists
    THEN [ok |-> TRUE, conn |-> [file |-> EmptyDb, work |-> EmptyDb]]
    ELSE [ok |-> FALSE, conn |-> conn]

\* INSERT INTO updates VALUES (?, ?, ?): opens a transaction, so only the
\* connection sees the row until commit; an error when there is no table
ExecInsert_AutoCreate(conn, row) ==
    [ok |-> TRUE,
     conn |-> [conn EXCEPT !.work =
                  [exists |-> TRUE, table |-> Append(conn.work.table, row)]]]

ExecInsert_Prepend(conn, row) ==
    IF conn.work.exists
    THEN [ok |-> TRUE,
          conn |-> [conn EXCEPT !.work.table = <<row>> \o conn.work.table]]
    ELSE [ok |-> FALSE, conn |-> conn]

ExecInsert(conn, row) ==
    IF conn.work.exists
    THEN [ok |-> TRUE,
          conn |-> [conn EXCEPT !.work.table = Append(conn.work.table, row)]]
    ELSE [ok |-> FALSE, conn |-> conn]

\* SELECT * FROM updates: the rows the connection sees, in rowid order
ExecSelect(conn) ==
    IF conn.work.exists
    THEN [ok |-> TRUE, rows |-> conn.work.table]
    ELSE [ok |-> FALSE, rows |-> <<>>]

\* conn.commit(): the connection's writes reach the file
Commit_Missing(conn) == conn

Commit(conn) == [conn EXCEPT !.file = conn.work]

\* what is persisted once the process is gone: uncommitted writes are lost
Persisted(conn) == conn.file

\* ", ".join(row)
JoinRow(row) == row[1] \o ", " \o row[2] \o ", " \o row[3]

\* f"Fetched {row} from database." for a row of three strings
FormatFetched(row) ==
    "Fetched ('" \o row[1] \o "', '" \o row[2] \o "', '" \o row[3]
        \o "') from database."

\* --------------------------------------------------------------- handlers
\* the result of one invocation: the file afterwards, how it ended, how many
\* connections it left open when it returned, what it fetched and printed
Result(file, outcome, open, fetched, printed) ==
    [db |-> file, outcome |-> outcome, open |-> open,
     rows |-> fetched, out |-> printed]

\* click_main.py init-db [--force]
ClickInitDb(file, force) ==
    LET conn    == Connect(file)
        dropped == IF force THEN ExecDrop(conn) ELSE [ok |-> TRUE, conn |-> conn]
        created == ExecCreate(dropped.conn)
    IN  IF ~dropped.ok
        THEN Result(Persisted(dropped.conn), "OperationalError", 1, <<>>, <<>>)
        ELSE IF ~created.ok
        THEN Result(Persisted(created.conn), "OperationalError", 1, <<>>, <<>>)
        ELSE Result(Persisted(created.conn), "ok", 0, <<>>, <<>>)

\* click_main.py update NAME SIZE
ClickUpdate(file, name, size, day) ==
    LET conn     == Connect(file)
        inserted == ExecInsert(conn, <<name, size, IsoFormat(DateToday(day))>>)
    IN  IF ~inserted.ok
        THEN Result(Persisted(inserted.conn), "OperationalError", 0, <<>>, <<>>)
        ELSE Result(Persisted(Commit(inserted.conn)), "ok", 0, <<>>, <<>>)

\* click_main.py summary
ClickSummary(file) ==
    LET conn     == Connect(file)
        selected == ExecSelect(conn)
    IN  IF ~selected.ok
        THEN Result(Persisted(conn), "OperationalError", 0, <<>>, <<>>)
        ELSE Result(Persisted(conn), "ok", 0, selected.rows,
                    [i \in 1..Len(selected.rows) |-> JoinRow(selected.rows[i])])

\* argparse_main.py initialize_database(db_name)
ArgparseInitializeDatabase(file) ==
    LET created == ExecCreate(Connect(file))
    IN  [ok |-> created.ok, db |-> Persisted(created.conn),
         open |-> IF created.ok THEN 0 ELSE 1]

\* argparse_main.py main, run with the positional arguments args
ArgparseMain(file, args, day) ==
    LET init     == ArgparseInitializeDatabase(EmptyDb)
        conn     == Connect(EmptyDb)
        created  == ExecCreate(conn)
        inserted == ExecInsert(created.conn,
                               <<args[1], args[2], IsoFormat(DateToday(day))>>)
        selected == ExecSelect(inserted.conn)
    IN  IF Len(args) = 0
        THEN Result(file, "SystemExit", 0, <<>>, <<>>)
        ELSE IF ~init.ok
        THEN Result(file, "OperationalError", init.open, <<>>, <<>>)
        ELSE IF Len(args) # 2
        THEN Result(file, "ValueError", 0, <<>>, <<>>)
        ELSE IF ~created.ok \/ ~inserted.ok \/ ~selected.ok
        THEN Result(file, "OperationalError", 0, <<>>, <<>>)
        ELSE Result(file, "ok", 0, <<selected.rows[1]>>,
                    <<FormatFetched(selected.rows[1])>>)

\* ---------------------------------------------------------------- actions
NoCall ==
    [entry |-> "none", op |-> "none", force |-> FALSE, args |-> <<>>,
     day |-> 0, before |-> EmptyDb, outcome |-> "ok", open |-> 0]

Init ==
    /\ db = EmptyDb
    /\ today = 0
    /\ call = NoCall
    /\ rows = <<>>
    /\ out = <<>>
    /\ prev = [op |-> "none", outcome |-> "ok"]

\* one invocation ran on day `day` and ended with result r
Finish(entry, op, force, args, day, r) ==
    /\ db' = r.db
    /\ today' = day
    /\ call' = [entry |-> entry, op |-> op, force |-> force, args |-> args,
                day |-> day, before |-> db, outcome |-> r.outcome,
                open |-> r.open]
    /\ rows' = r.rows
    /\ out' = r.out
    /\ prev' = [op |-> call.op, outcome |-> call.outcome]

InitDb ==
    \E force \in BOOLEAN, day \in today..MaxDay :
        Finish("click", "init-db", force, <<>>, day, ClickInitDb(db, force))

Update ==
    \E name \in Names, size \in Sizes, day \in today..MaxDay :
        /\ Len(db.table) < MaxRows
        /\ Finish("click", "update", FALSE, <<name, size>>, day,
                  ClickUpdate(db, name, size, day))

Summary ==
    \E day \in today..MaxDay :
        Finish("click", "summary", FALSE, <<>>, day, ClickSummary(db))

Main ==
    \E args \in ArgLists, day \in today..MaxDay :
        Finish("argparse", "main", FALSE, args, day, ArgparseMain(db, args, day))

Next == InitDb \/ Update \/ Summary \/ Main

Spec == Init /\ [][Next]_vars

\* ------------------------------------------------- documented constraints
\* "app_name, which is a string column where each entry has length > 0"
ValidName(name) == name # ""

\* float(size) where it is defined
IsNumeric(size) == size \in {"10", "0", "-5"}

SizeValue(size) ==
    CASE size = "10" -> 10
      [] size = "0"  -> 0
      [] size = "-5" -> 0 - 5
      [] OTHER       -> 0

\* "app_size, which is a float column where each entry is > 0"
ValidSize(size) == IsNumeric(size) /\ SizeValue(size) > 0

\* the day ordinal a stored ISO date stands for
DayOfIso(text) == CHOOSE d \in 0..MaxDay : IsoFormat(DateToday(d)) = text

\* "Cumulative app update size for the past week, month and year": the sum
\* of the sizes of the rows dated within the `window` days ending on `day`
RECURSIVE WindowTotal(_, _, _)
WindowTotal(table, day, window) ==
    IF table = <<>> THEN 0
    ELSE LET row == Head(table)
             age == day - DayOfIso(row[3])
         IN  (IF age >= 0 /\ age < window THEN SizeValue(row[2]) ELSE 0)
                 + WindowTotal(Tail(table), day, window)

IsPrefix(s, t) == Len(s) <= Len(t) /\ SubSeq(t, 1, Len(s)) = s

ClickCall(op) == call.entry = "click" /\ call.op = op

\* the row an update invocation c is to store
RowOf(c) == <<c.args[1], c.args[2], IsoFormat(DateToday(c.day))>>

\* ------------------------------------------------------------------ claims

\* C1: a summary that directly follows an update of a valid (name, size) on
\* an existing table succeeds and fetches the rows stored before the update,
\* unchanged and in order, followed by the one new row (name, size, date of
\* the update).
C1_InsertThenFetchAll ==
    [][(/\ ClickCall("update")
        /\ call.before.exists
        /\ ValidName(call.args[1])
        /\ ValidSize(call.args[2])
        /\ call'.entry = "click"
        /\ call'.op = "summary")
       => (/\ call'.outcome = "ok"
           /\ rows' = Append(call.before.table, RowOf(call))
           /\ out' = [i \in 1..Len(rows') |-> JoinRow(rows'[i])])]_vars

C1_Witness ==
    /\ ClickCall("summary")
    /\ call.outcome = "ok"
    /\ prev.op = "update"
    /\ prev.outcome = "ok"
    /\ Len(rows) >= 2
    /\ ValidName(rows[Len(rows)][1])
    /\ ValidSize(rows[Len(rows)][2])
    /\ rows[Len(rows)][3] = IsoFormat(DateToday(MaxDay))
    /\ rows[1][3] # rows[Len(rows)][3]

\* C2: init-db --force always leaves an existing, empty updates table,
\* whatever the store held before (no table, an empty table, any rows).
C2_ForceYieldsEmptyTable ==
    (ClickCall("init-db") /\ call.force)
        => (db.exists /\ db.table = <<>>)

C4_InvalidInsertRejected ==
    (ClickCall("update")
        /\ ~(ValidName(call.args[1]) /\ ValidSize(call.args[2])))
        => (call.outcome # "ok" /\ db = call.before)

\* C5: update and summary on a store without the updates table end in an
\* error, and leave the store without a table and without rows.
C5_MissingTableIsError ==
    ((ClickCall("update") \/ ClickCall("summary")) /\ ~call.before.exists)
        => (call.outcome # "ok" /\ db = EmptyDb /\ rows = <<>>)

C5_Witness ==
    /\ ClickCall("update")
    /\ ~call.before.exists
    /\ call.outcome = "OperationalError"
    /\ prev.op = "summary"
    /\ prev.outcome = "OperationalError"

\* C6: a successful summary prints the weekly, monthly and yearly totals:
\* the sums of the sizes stored within the 7, 30 and 365 days ending on the
\* day of the call (0 when no row lies in the window).
C6_SummaryReportsWindowTotals ==
    (ClickCall("summary") /\ call.outcome = "ok")
        => \A window \in {7, 30, 365} :
              \E i \in DOMAIN out :
                  out[i] = ToString(WindowTotal(db.table, call.day, window))

\* C7: no invocation returns with a connection it opened still open.
C7_ConnectionsClosed == call.open = 0

\* C8: the stored rows are append-only: a step that is not a successful
\* forced init-db keeps the rows it found as a prefix of the rows it leaves,
\* and summary leaves the store as it found it.
C8_AppendOnly ==
    [][/\ ~(call'.op = "init-db" /\ call'.force /\ call'.outcome = "ok")
           => IsPrefix(db.table, db'.table)
       /\ call'.op = "summary" => db' = db]_vars

C8_Witness ==
    /\ ClickCall("init-db")
    /\ ~call.force
    /\ Len(db.table) >= 2
    /\ prev.op = "summary"

\* C9: the row of an argparse `update app_name app_size` invocation is in
\* the updates table of the database afterwards.
C9_ArgparseUpdatePersisted ==
    (call.entry = "argparse" /\ Len(call.args) = 3 /\ call.args[1] = "update")
        => \E i \in DOMAIN db.table :
              db.table[i] = <<call.args[2], call.args[3],
                              IsoFormat(DateToday(call.day))>>

\* C10: a click invocation that ends in an error leaves the store as it
\* found it: the table exists iff it did, with the same rows.
C10_ErrorLeavesStoreUnchanged ==
    (call.entry = "click" /\ call.outcome # "ok") => db = call.before

C10_Witness ==
    /\ ClickCall("init-db")
    /\ call.force
    /\ call.outcome = "OperationalError"
    /\ prev.op = "update"
    /\ prev.outcome = "OperationalError"
====
